---- MODULE Spec2Model ----
(***************************************************************************)
(* Quiz pipeline of CS7643-Module4: the renderer (docs/build.js,           *)
(* generateQuizHtml), the client-side grader (docs/js/script.js) and the   *)
(* answer-line normalizer (docs/fix_quiz_factchecker.js, processFile).     *)
(*                                                                         *)
(* Text model.  A header line is a sequence of one-character strings, so   *)
(* that toLowerCase() and includes() are computed character by character.  *)
(* An explanation is a sequence of tokens; a token is one lexical unit of  *)
(* the text (a word or fixed phrase, a punctuation mark, a line break, a   *)
(* bold marker).  Tokens are laid out with one space between neighbours,   *)
(* except that no space precedes "," or "NL" and none follows "NL".  The   *)
(* regular expressions of the source are computed over this layout: a      *)
(* character class becomes the set of tokens all of whose characters are   *)
(* in the class.                                                           *)
(***************************************************************************)
EXTENDS Integers, Sequences, FiniteSets, TLC

VARIABLES
    markdown,         \* build.js: the question section read from the .md file
    page,             \* build.js: the question block written to the .html file
    dom,              \* script.js: the inputs of the loaded question block
    checked,          \* script.js: indices of the inputs whose .checked is true
    feedback,         \* script.js: feedbackEl.className
    display,          \* script.js: explanationEl.style.display
    btnText,          \* script.js: textContent of the .btn-check button
    highlighted,      \* script.js: labels carrying class correct-answer
    result,           \* script.js: what the last checkAnswer call returned
    changed,          \* TRUE when an input was clicked since the last check click
    stage,            \* "source" -> "built" -> "loaded"
    section,          \* fix_quiz_factchecker.js: the question section in the file
    content,          \* fix_quiz_factchecker.js: the section as read by the last run
    runs,             \* number of processFile runs on the file so far
    questionDetails,  \* fix_quiz_factchecker.js: results.questionDetails
    issues,           \* fix_answer_discrepancies.js: results.fileResults[f].issues
    results,          \* fix_all_quizzes.js / repair script: the run's results counters
    document,         \* the quiz file as the test scripts read it: title, sections
    fileInfo,         \* test_quiz_questions.js: what parseMarkdownFile returned
    answerFile,       \* combine_quizzes.js: the sections of the answers file
    combined,         \* combine_quizzes.js: the question-answer pairs written
    submitted,        \* quiz-converter.js: the files of the submits so far
    reads,            \* quiz-converter.js: the FileReader reads in flight
    output,           \* quiz-converter.js: value of the #output field
    quizHtml          \* build.js: the question blocks generateQuizHtml wrote for a file

uiVars == <<markdown, page, dom, checked, feedback, display, btnText,
            highlighted, result, changed, stage>>
toolVars == <<answerFile, combined, submitted, reads, output, quizHtml>>
normVars == <<section, content, runs, questionDetails, issues, results,
              document, fileInfo, answerFile, combined, submitted, reads, output,
              quizHtml>>
docVars == <<document, fileInfo, answerFile, combined, submitted, reads, output,
              quizHtml>>
vars == <<markdown, page, dom, checked, feedback, display, btnText,
          highlighted, result, changed, stage,
          section, content, runs, questionDetails, issues, results,
          document, fileInfo, answerFile, combined, submitted, reads, output,
              quizHtml>>

(***************************************************************************)
(* Bounds of the model.                                                    *)
(***************************************************************************)
MaxOptions == 3      \* option lines of a rendered question
MaxExpl == 5         \* tokens of an authored explanation
MaxRuns == 2         \* processFile runs on one file
MaxQuestions == 3    \* question sections of a file under test

(***************************************************************************)
(* Characters and header lines.                                            *)
(***************************************************************************)
UpperChars == <<"A","B","C","D","E","F","G","H","I","J","K","L","M",
                "N","O","P","Q","R","S","T","U","V","W","X","Y","Z">>
LowerChars == <<"a","b","c","d","e","f","g","h","i","j","k","l","m",
                "n","o","p","q","r","s","t","u","v","w","x","y","z">>

IsUpperChar(c) == \E i \in 1..26 : UpperChars[i] = c

ToLowerChar(c) ==
    IF IsUpperChar(c) THEN LowerChars[CHOOSE i \in 1..26 : UpperChars[i] = c]
    ELSE c

ToUpperChar(c) ==
    IF \E i \in 1..26 : LowerChars[i] = c
    THEN UpperChars[CHOOSE i \in 1..26 : LowerChars[i] = c]
    ELSE c

\* String.prototype.toLowerCase
ToLowerCase(s) == [i \in 1..Len(s) |-> ToLowerChar(s[i])]

\* String.prototype.includes
Includes(s, pat) ==
    \E i \in 0..(Len(s) - Len(pat)) : SubSeq(s, i + 1, i + Len(pat)) = pat

\* The type labels found in the quiz corpus and accepted by the test
\* patterns, each the text between the parentheses of a question header.
LblTrueFalse == <<"T","r","u","e","/","F","a","l","s","e">>
LblMultipleChoice ==
    <<"M","u","l","t","i","p","l","e"," ","C","h","o","i","c","e">>
LblMultiSelect == <<"M","u","l","t","i","-","S","e","l","e","c","t">>
LblMultiSelectLower == <<"m","u","l","t","i","-","s","e","l","e","c","t">>
LblMultipleSelect ==
    <<"M","u","l","t","i","p","l","e"," ","S","e","l","e","c","t">>
LblMultiSpaceSelect == <<"M","u","l","t","i"," ","S","e","l","e","c","t">>

TypeLabels == {LblTrueFalse, LblMultipleChoice, LblMultiSelect,
               LblMultiSelectLower, LblMultipleSelect, LblMultiSpaceSelect}

\* "Question 1 (<label>)": the text after "### " on the header line
HeaderTitle(label) ==
    <<"Q","u","e","s","t","i","o","n"," ","1"," ","(">> \o label \o <<")">>

\* The literal needles of the source.
StrMultiSelect == <<"m","u","l","t","i","-","s","e","l","e","c","t">>
StrMultiSpaceSelect == <<"m","u","l","t","i"," ","s","e","l","e","c","t">>
StrMultipleSelect ==
    <<"m","u","l","t","i","p","l","e"," ","s","e","l","e","c","t">>
StrMultipleChoice ==
    <<"m","u","l","t","i","p","l","e"," ","c","h","o","i","c","e">>
StrTrueFalse == <<"t","r","u","e","/","f","a","l","s","e">>

(***************************************************************************)
(* Tokens of an explanation.                                               *)
(*   "CA"          the bold marker **Correct Answers:**                     *)
(*   "A".."H"      an upper-case letter standing alone                     *)
(*   "(C)"         the letter C in parentheses                             *)
(*   ","  "NL"     a comma, a line break                                   *)
(*   "is correct"  a phrase of CORRECT_PHRASES                             *)
(*   "is wrong"    a phrase of NEGATION_PHRASES                            *)
(*   "true" "false" "option"   lower-case words                            *)
(***************************************************************************)
TokCA == "CA"
TokNL == "NL"
TokComma == ","

\* /^[A-Z]$/ on one piece of text
IsUpperLetterTok(t) == IsUpperChar(t)

Trim(toks) ==
    LET keep == {i \in 1..Len(toks) : toks[i] # TokNL}
    IN  IF keep = {} THEN <<>>
        ELSE SubSeq(toks, CHOOSE i \in keep : \A j \in keep : i <= j,
                          CHOOSE i \in keep : \A j \in keep : i >= j)

RECURSIVE JoinLetters(_)
\* letters.join(', ')
JoinLetters(letters) ==
    IF Len(letters) = 0 THEN <<>>
    ELSE IF Len(letters) = 1 THEN <<letters[1]>>
    ELSE <<letters[1], TokComma>> \o JoinLetters(Tail(letters))

SeqToSet(s) == {s[i] : i \in 1..Len(s)}

(***************************************************************************)
(* build.js, generateQuizHtml: one section of the markdown file becomes    *)
(* one question block.  A section is                                       *)
(*   header   the text after "### " on its first header line (<<>>: none)  *)
(*   options  its "- [m] L. text" lines: mark m, letter L                  *)
(*   expl     the tokens between </summary> and </details>                 *)
(* Sections of the standardized corpus carry no plain "- text" bullets, so *)
(* section.indexOf('\n- ') is -1 and the plain-bullet branch adds nothing. *)
(***************************************************************************)
OptionLetters == <<"A", "B", "C", "D", "E", "F", "G", "H">>

NoPage == [block |-> FALSE]
NoDom == [loaded |-> FALSE]
NoMarkdown == [header |-> <<>>, options |-> <<>>, expl |-> <<>>]

\* questionTitle.toLowerCase().includes('multi-select') || ...('multiple select')
IsMultiSelect(questionTitle) ==
    \/ Includes(ToLowerCase(questionTitle), StrMultiSelect)
    \/ Includes(ToLowerCase(questionTitle), StrMultipleSelect)

InputType(questionTitle) ==
    IF IsMultiSelect(questionTitle) THEN "checkbox" ELSE "radio"

\* a tagging that takes the unmarked boxes for the correct ones
DataCorrectFromBlank(opt) == IF opt.mark = " " THEN "true" ELSE "false"

\* match[1].toLowerCase() === 'x', written into data-correct="${...}"
DataCorrectFromLine(opt) == IF ToLowerChar(opt.mark) = "x" THEN "true" ELSE "false"

\* checkboxRegex loop: every "- [ ]" / "- [x]" line is one option
RenderOptions(sec) ==
    [i \in 1..Len(sec.options) |->
        [dataCorrect |-> DataCorrectFromLine(sec.options[i]),
         letter |-> sec.options[i].letter]]

\* explanationMatch[1].trim().replace(/\*\*(.+?)\*\*/g, '<strong>$1</strong>')
RenderExplanation(expl) ==
    LET t == Trim(expl)
    IN  [i \in 1..Len(t) |->
            IF t[i] = TokCA THEN "<strong>Correct Answers:</strong>" ELSE t[i]]

RenderSection(sec) ==
    IF sec.header = <<>> THEN NoPage      \* if (!questionMatch) return;
    ELSE [block |-> TRUE,
          inputType |-> InputType(sec.header),
          options |-> RenderOptions(sec),
          explanation |-> RenderExplanation(sec.expl)]

(***************************************************************************)
(* validate_correct_answers (part_001): what the tests read back.          *)
(***************************************************************************)
LineStart(toks, i) == i = 1 \/ toks[i - 1] = TokNL

\* tokens made only of characters of [A-Z,\s] (no i flag)
StrictToks == SeqToSet(UpperChars) \cup {TokComma, TokNL}

\* largest k >= i with toks[i+1..k] all in the class cls
RECURSIVE RunEnd(_, _, _)
RunEnd(toks, k, cls) ==
    IF k < Len(toks) /\ toks[k + 1] \in cls THEN RunEnd(toks, k + 1, cls)
    ELSE k

\* /^\*\*Correct Answers?:\*\*\s+([A-Z,\s]+)$/m at the marker at index i:
\* the places m where the capture toks[i+1..m-1] can end (a line end)
MdAnswerEnds(toks, i) ==
    LET k == RunEnd(toks, i, StrictToks)
    IN  {m \in (i + 2)..(k + 1) :
            /\ toks[i + 1] # TokComma
            /\ (m = Len(toks) + 1 \/ toks[m] = TokNL)
            /\ (toks[i + 1] = TokNL => m >= i + 3)}

\* parseMarkdownQuestions: correctLetters from the answer line
ParseMdCorrectLetters(toks) ==
    LET starts == {i \in 1..Len(toks) :
                     /\ toks[i] = TokCA
                     /\ LineStart(toks, i)
                     /\ i < Len(toks)
                     /\ MdAnswerEnds(toks, i) # {}}
    IN  IF starts = {} THEN <<>>
        ELSE LET i == CHOOSE x \in starts : \A y \in starts : x <= y
                 m == CHOOSE x \in MdAnswerEnds(toks, i) :
                        \A y \in MdAnswerEnds(toks, i) : x >= y
             IN  SelectSeq(SubSeq(toks, i + 1, m - 1), IsUpperLetterTok)

\* parseHtmlQuestions: an option is correct when data-correct="true"
ParseHtmlCorrectLetters(pg) ==
    {pg.options[i].letter : i \in {j \in 1..Len(pg.options) :
                                      pg.options[j].dataCorrect = "true"}}

(***************************************************************************)
(* The markdown sections handed to the renderer: a header with one of the  *)
(* type labels, up to MaxOptions lettered checkbox lines, each marked      *)
(* "- [ ]" or "- [x]", and an answer block declaring a set of the letters. *)
(***************************************************************************)
Marks == {" ", "x"}

LettersUpTo(n) == {OptionLetters[i] : i \in 1..n}

\* the members of S in alphabetical order
SortedLetters(S) ==
    LET Member(l) == l \in S
    IN  SelectSeq(UpperChars, Member)

\* "\n**Correct Answers:** A, C\n" (README, Standardized Quiz Format)
AnswerBlock(declared) ==
    IF declared = {} THEN <<TokNL>>
    ELSE <<TokNL, TokCA>> \o JoinLetters(SortedLetters(declared)) \o <<TokNL>>

MakeSection(label, marks, declared) ==
    [header |-> HeaderTitle(label),
     options |-> [i \in 1..Len(marks) |->
                    [mark |-> marks[i], letter |-> OptionLetters[i]]],
     expl |-> AnswerBlock(declared)]

Sections ==
    {NoMarkdown} \cup
    UNION {UNION {{MakeSection(label, marks, declared) :
                      label \in TypeLabels, declared \in SUBSET LettersUpTo(n)} :
                  marks \in [1..n -> Marks]} :
           n \in 0..MaxOptions}

(***************************************************************************)
(* script.js: checkAnswer and the click handlers.                          *)
(***************************************************************************)
ShouldBeSelected(d, i) == d.inputs[i] = "true"   \* option.dataset.correct === 'true'

CorrectInputs(d) == {i \in 1..Len(d.inputs) : ShouldBeSelected(d, i)}

\* a grader that accepts any selection holding no wrong input
IsCorrectPartialCredit(d, chk) == chk \subseteq CorrectInputs(d)

\* the forEach of lines 48-56: isCorrect stays true only if every input agrees
IsCorrect(d, chk) ==
    \A i \in 1..Len(d.inputs) : (i \in chk) = ShouldBeSelected(d, i)

HasSelection(d, chk) == \E i \in 1..Len(d.inputs) : i \in chk

NoResult == [kind |-> "none", isCorrect |-> FALSE, hasSelection |-> FALSE]

\* checkAnswer(questionEl): the return value and the feedback class it sets.
\* With no input in the block, questionEl.querySelector('input') is null and
\* reading .type (line 43) throws before anything is written.
CheckAnswer(d, chk) ==
    IF Len(d.inputs) = 0
    THEN [kind |-> "threw", isCorrect |-> FALSE, hasSelection |-> FALSE,
          className |-> "", highlight |-> {}]
    ELSE IF ~HasSelection(d, chk)
    THEN [kind |-> "returned", isCorrect |-> FALSE, hasSelection |-> FALSE,
          className |-> "feedback warning", highlight |-> {}]
    ELSE [kind |-> "returned", isCorrect |-> IsCorrect(d, chk),
          hasSelection |-> TRUE,
          className |-> IF IsCorrect(d, chk) THEN "feedback correct"
                        ELSE "feedback incorrect",
          highlight |-> CorrectInputs(d)]

\* node build.js: generateQuizHtml writes the question block
Build ==
    /\ stage = "source"
    /\ page' = RenderSection(markdown)
    /\ stage' = "built"
    /\ UNCHANGED <<markdown, dom, checked, feedback, display, btnText,
                   highlighted, result, changed>>
    /\ UNCHANGED normVars

\* DOMContentLoaded: setupQuizInteractivity on the page the browser loaded.
\* From here on only the block's inputs are read.
Load ==
    /\ stage = "built"
    /\ dom' = IF page.block
              THEN [loaded |-> TRUE, block |-> TRUE,
                    inputType |-> page.inputType,
                    inputs |-> [i \in 1..Len(page.options) |->
                                   page.options[i].dataCorrect]]
              ELSE [loaded |-> TRUE, block |-> FALSE,
                    inputType |-> "", inputs |-> <<>>]
    /\ display' = IF page.block THEN "none" ELSE display
    /\ btnText' = "Check Answer"
    /\ markdown' = NoMarkdown
    /\ page' = NoPage
    /\ stage' = "loaded"
    /\ UNCHANGED <<checked, feedback, highlighted, result, changed>>
    /\ UNCHANGED normVars

\* the user clicks input i: a radio group keeps one input checked, a
\* checkbox toggles
ClickOption(i) ==
    /\ stage = "loaded"
    /\ dom.block
    /\ i \in 1..Len(dom.inputs)
    /\ checked' = IF dom.inputType = "radio" THEN {i}
                  ELSE IF i \in checked THEN checked \ {i}
                  ELSE checked \cup {i}
    /\ changed' = TRUE
    /\ UNCHANGED <<markdown, page, dom, feedback, display, btnText,
                   highlighted, result, stage>>
    /\ UNCHANGED normVars

\* a click handler that toggles the explanation and leaves the button text
ClickCheckStaleButton ==
    /\ stage = "loaded"
    /\ dom.block
    /\ LET r == CheckAnswer(dom, checked)
       IN  /\ result' = [kind |-> r.kind, isCorrect |-> r.isCorrect,
                         hasSelection |-> r.hasSelection]
           /\ IF r.kind = "threw"
              THEN UNCHANGED <<feedback, highlighted, display>>
              ELSE /\ feedback' = r.className
                   /\ highlighted' = highlighted \cup r.highlight
                   /\ display' = IF display = "block" THEN "none" ELSE "block"
    /\ changed' = FALSE
    /\ UNCHANGED <<markdown, page, dom, checked, stage, btnText>>
    /\ UNCHANGED normVars

\* click on .btn-check (lines 9-26)
ClickCheck ==
    /\ stage = "loaded"
    /\ dom.block
    /\ LET r == CheckAnswer(dom, checked)
       IN  /\ result' = [kind |-> r.kind, isCorrect |-> r.isCorrect,
                         hasSelection |-> r.hasSelection]
           /\ IF r.kind = "threw"
              THEN UNCHANGED <<feedback, highlighted, display, btnText>>
              ELSE /\ feedback' = r.className
                   /\ highlighted' = highlighted \cup r.highlight
                   /\ IF display = "block"
                      THEN display' = "none" /\ btnText' = "Check Answer"
                      ELSE display' = "block" /\ btnText' = "Hide Explanation"
    /\ changed' = FALSE
    /\ UNCHANGED <<markdown, page, dom, checked, stage>>
    /\ UNCHANGED normVars

NoSection == [qtype |-> <<>>, options |-> <<>>, expl |-> <<>>]

\* no test has run: results.fileResults holds nothing for the file
NoIssues == [tested |-> FALSE, found |-> {}]

\* the results object of a repair process before it has touched a section
NoResults ==
    [multipleChoiceFixed |-> 0, specificFixes |-> 0, otherFixes |-> 0,
     placeholdersFixed |-> 0, answerFormatsFixed |-> 0,
     optionFormatsFixed |-> 0, detailsAdded |-> 0, separatorsAdded |-> 0]

\* no file is under test
NoDocument == [title |-> FALSE, questions |-> <<>>]

\* parseMarkdownFile has not been called
NoFileInfo == [returned |-> FALSE, threw |-> FALSE, questions |-> <<>>]

\* combine_quizzes.js has written no file
NoCombined == [written |-> FALSE, pairs |-> <<>>]

\* the #output field before any conversion
NoOutput == [converted |-> FALSE, title |-> "", blocks |-> 0]

\* generateQuizHtml has not been called on a file
NoQuizHtml == [built |-> FALSE, blocks |-> <<>>]

\* neither the combiner, the converter page nor the file build is in use
ToolIdle ==
    /\ answerFile = <<>>
    /\ combined = NoCombined
    /\ submitted = <<>>
    /\ reads = {}
    /\ output = NoOutput
    /\ quizHtml = NoQuizHtml

DocIdle ==
    /\ document = NoDocument
    /\ fileInfo = NoFileInfo
    /\ ToolIdle

NormIdleSection ==
    /\ section = NoSection
    /\ content = NoSection
    /\ runs = 0
    /\ questionDetails = <<>>

NormIdle ==
    /\ NormIdleSection
    /\ issues = NoIssues
    /\ results = NoResults
    /\ DocIdle

Init ==
    /\ markdown \in Sections
    /\ page = NoPage
    /\ dom = NoDom
    /\ checked = {}
    /\ feedback = "feedback"
    /\ display = ""
    /\ btnText = "Check Answer"
    /\ highlighted = {}
    /\ result = NoResult
    /\ changed = FALSE
    /\ stage = "source"
    /\ NormIdle

Next ==
    \/ Build
    \/ Load
    \/ \E i \in 1..MaxOptions : ClickOption(i)
    \/ ClickCheck

Spec == Init /\ [][Next]_vars

(***************************************************************************)
(* fix_quiz_factchecker.js, processFile: the callback applied to one       *)
(* question section.  A section is                                         *)
(*   qtype    the text between the parentheses of "### Question N (...)"   *)
(*            (<<>>: the header has no parenthesised type)                 *)
(*   options  its "- [ ] L. text" lines: letter L and text, the text one   *)
(*            lower-case token (the patterns are case-insensitive)         *)
(*   expl     the tokens between </summary> and </details>                 *)
(***************************************************************************)
CORRECT_PHRASES == {"is correct"}      \* tokens containing a CORRECT_PHRASES entry
NEGATION_PHRASES == {"is wrong"}       \* tokens containing a NEGATION_PHRASES entry
ParenToks == {"(A)", "(B)", "(C)", "(D)"}   \* matches of /\(([A-Z,\s]+)\)/
WordToks == {"is correct", "is wrong", "true", "false", "option", "word",
             "lima", "rome", "oslo"}
BoldToks == {TokCA, "BOLD"}            \* matches of /\*\*.+?\*\*/
StopToks == {",", ".", ";"}            \* the characters [^.;,]* cannot cross

ParenLetter(t) ==
    CASE t = "(A)" -> "A" [] t = "(B)" -> "B" [] t = "(C)" -> "C"
      [] t = "(D)" -> "D" [] OTHER -> ""

\* a single letter, /^[A-Z]$/i
IsLetterTok(t) == IsUpperChar(t) \/ IsUpperChar(ToUpperChar(t))

\* tokens made only of characters of [A-Z,\s] under the i flag
LooseToks == SeqToSet(UpperChars) \cup SeqToSet(LowerChars) \cup WordToks
             \cup {TokComma, TokNL}

\* the upper-cased first character of a token that starts with a letter
FirstLetter(t) ==
    IF IsLetterTok(t) THEN ToUpperChar(t)
    ELSE CASE t \in {"is correct", "is wrong"} -> "I"
           [] t = "true" -> "T" [] t = "false" -> "F" [] t = "option" -> "O"
           [] t = "word" -> "W" [] t = "lima" -> "L" [] t = "rome" -> "R"
           [] t = "oslo" -> "O" [] OTHER -> ""

\* number of characters of a token
TokLen(t) ==
    CASE t = TokCA -> 20 [] t = "BOLD" -> 16 [] t \in ParenToks -> 3
      [] t = "is correct" -> 10 [] t = "is wrong" -> 8 [] t = "true" -> 4
      [] t = "false" -> 5 [] t = "option" -> 6 [] t = "word" -> 4
      [] t = "lima" -> 4 [] t = "rome" -> 4 [] t = "oslo" -> 4
      [] OTHER -> 1

\* one space before token i, except first of a line, "," and "NL"
SpaceBefore(toks, i) ==
    IF i = 1 \/ toks[i] \in {TokComma, TokNL} \/ toks[i - 1] = TokNL THEN 0 ELSE 1

RECURSIVE TokStart(_, _)
\* character offset at which token i starts
TokStart(toks, i) ==
    IF i = 1 THEN 0
    ELSE TokStart(toks, i - 1) + TokLen(toks[i - 1]) + SpaceBefore(toks, i)

TextLength(toks) ==
    IF Len(toks) = 0 THEN 0
    ELSE TokStart(toks, Len(toks)) + TokLen(toks[Len(toks)])

Min(a, b) == IF a < b THEN a ELSE b
Max(a, b) == IF a > b THEN a ELSE b

\* explanationContent.match(/\*\*Correct Answers?:\*\*\s*([A-Z,\s]+)/i): the
\* index of the first marker followed by at least one character of the class
\* (0: no match).  Any following token supplies one: itself, or the space
\* before it.
AnswersMatch(toks) ==
    LET hits == {i \in 1..Len(toks) : toks[i] = TokCA /\ i < Len(toks)}
    IN  IF hits = {} THEN 0 ELSE CHOOSE i \in hits : \A j \in hits : i <= j

\* correctAnswersMatch[1].split(/[,\s]+/).filter(/^[A-Z]$/i).map(toUpperCase)
CurrentCorrectLetters(toks) ==
    LET i == AnswersMatch(toks)
        capture == SubSeq(toks, i + 1, RunEnd(toks, i, LooseToks))
        letters == SelectSeq(capture, IsLetterTok)
    IN  [k \in 1..Len(letters) |-> ToUpperChar(letters[k])]

\* explanationContent.match(/\*\*Correct Answers?:\*\*/g).length > 1
HasDuplicateAnswerLines(toks) ==
    Cardinality({i \in 1..Len(toks) : toks[i] = TokCA}) > 1

RECURSIVE StripAnswerRuns(_, _)
\* .replace(/\*\*Correct Answers?:\*\*\s*[A-Z,\s]+/g, '')
\* .replace(/\*\*.+?\*\*/g, ''): every marker goes, with the run of
\* upper-case letters, commas and white space that follows it
StripAnswerRuns(toks, i) ==
    IF i > Len(toks) THEN <<>>
    ELSE IF toks[i] = TokCA
         THEN StripAnswerRuns(toks, RunEnd(toks, i, StrictToks) + 1)
    ELSE IF toks[i] \in BoldToks THEN StripAnswerRuns(toks, i + 1)
    ELSE <<toks[i]>> \o StripAnswerRuns(toks, i + 1)

ExplanationTextOnly(toks) == StripAnswerRuns(toks, 1)

\* text[i] ... [^.;,]*(?:phrases): a phrase after index i with no stop between
PhraseAfter(text, i, phrases) ==
    \E j \in (i + 1)..Len(text) :
        /\ text[j] \in phrases
        /\ \A k \in (i + 1)..(j - 1) : text[k] \notin StopToks

\* the four letter patterns and the option-text pattern of Method 1, each
\* followed by one of the phrases.  The second letter pattern
\* ((?:^|\s)L\)...) needs "L)" after white space, which no token supplies.
MentionedWith(text, option, phrases) ==
    \/ \E i \in 1..Len(text) :
          /\ \/ ParenLetter(text[i]) = option.letter
             \/ IsLetterTok(text[i]) /\ ToUpperChar(text[i]) = option.letter
             \/ text[i] = option.text
          /\ PhraseAfter(text, i, phrases)
    \/ \E i \in 1..(Len(text) - 1) :
          /\ text[i] = "option"
          /\ FirstLetter(text[i + 1]) = option.letter
          /\ PhraseAfter(text, i + 1, phrases)

\* Method 1 (lines 180-220) for one option: said correct and not said wrong
Method1(text, option) ==
    /\ MentionedWith(text, option, CORRECT_PHRASES)
    /\ ~MentionedWith(text, option, NEGATION_PHRASES)

\* getTextSurrounding(text, match, 50) holds one of CORRECT_PHRASES, where
\* match is the parenthesised list first found at index i
CONTEXT_CHARS == 50

IsCorrectContext(text, i) ==
    LET first == CHOOSE k \in 1..Len(text) :
                    text[k] = text[i] /\ \A m \in 1..(k - 1) : text[m] # text[i]
        start == Max(0, TokStart(text, first) - CONTEXT_CHARS)
        end == Min(TextLength(text),
                   TokStart(text, first) + TokLen(text[first]) + CONTEXT_CHARS)
    IN  \E j \in 1..Len(text) :
           /\ text[j] \in CORRECT_PHRASES
           /\ TokStart(text, j) >= start
           /\ TokStart(text, j) + TokLen(text[j]) <= end

RECURSIVE Method2(_, _, _)
\* Method 2 (lines 222-245): parenthesised letter lists in a correct context
Method2(text, i, found) ==
    IF i > Len(text) THEN found
    ELSE IF /\ text[i] \in ParenToks
            /\ ParenLetter(text[i]) \in SeqToSet(OptionLetters)
            /\ IsCorrectContext(text, i)
            /\ ParenLetter(text[i]) \notin SeqToSet(found)
         THEN Method2(text, i + 1, Append(found, ParenLetter(text[i])))
    ELSE Method2(text, i + 1, found)

\* Method 3 (lines 247-266): True/False questions
Method3(text, qtype, found) ==
    IF ~Includes(ToLowerCase(qtype), StrTrueFalse) THEN found
    ELSE LET saysTrue ==
                 /\ \E i \in 1..Len(text) : text[i] = "true"
                 /\ ~\E i \in 1..Len(text) : text[i] \in NEGATION_PHRASES
             withA == IF saysTrue /\ "A" \notin SeqToSet(found)
                      THEN Append(found, "A") ELSE found
             saysFalse ==
                 \/ \E i \in 1..(Len(text) - 1) :
                       text[i] = "false" /\ text[i + 1] = "is correct"
                 \/ \E i \in 1..(Len(text) - 2) :
                       /\ text[i] = "false" /\ text[i + 1] = "option"
                       /\ text[i + 2] = "is correct"
         IN  IF saysFalse /\ "B" \notin SeqToSet(withA)
             THEN Append(withA, "B") ELSE withA

\* Methods 1 to 3 in turn over the explanation text
AnalyseExplanation(text, sec) ==
    LET Keep(option) == Method1(text, option)
        byPhrase == SelectSeq(sec.options, Keep)
        m1 == [k \in 1..Len(byPhrase) |-> byPhrase[k].letter]
    IN  Method3(text, sec.qtype, Method2(text, 1, m1))

\* explicitlyMentionedCorrect after the three methods
ExplicitlyMentionedCorrect(sec) ==
    AnalyseExplanation(ExplanationTextOnly(sec.expl), sec)

\* the declared letters kept as they are
NewLettersExplicitWins(current, mentioned) == current

\* [...new Set([...currentCorrectLetters, ...explicitlyMentionedCorrect])].sort()
NewCorrectLetters(current, mentioned) ==
    SortedLetters(SeqToSet(current) \cup SeqToSet(mentioned))

\* tokens holding no newline, [^\n]
SameLineToks ==
    (LooseToks \cup ParenToks \cup BoldToks \cup StopToks) \ {TokNL}

RECURSIVE RemoveFirstAnswerLine(_, _)
\* the same replace without the g flag: only the first declaration goes
RemoveFirstAnswerLine(toks, i) ==
    IF i > Len(toks) THEN <<>>
    ELSE IF toks[i] = TokCA
         THEN SubSeq(toks, RunEnd(toks, RunEnd(toks, i, {TokNL}), SameLineToks) + 1,
                     Len(toks))
    ELSE <<toks[i]>> \o RemoveFirstAnswerLine(toks, i + 1)

RECURSIVE RemoveAnswerLines(_, _)
\* explanationContent.replace(/\*\*Correct Answers?:\*\*\s*[^\n]*/g, '')
RemoveAnswerLines(toks, i) ==
    IF i > Len(toks) THEN <<>>
    ELSE IF toks[i] = TokCA
         THEN LET j == RunEnd(toks, i, {TokNL})
                  k == RunEnd(toks, j, SameLineToks)
              IN  RemoveAnswerLines(toks, k + 1)
    ELSE <<toks[i]>> \o RemoveAnswerLines(toks, i + 1)

\* lines 326-334: the explanation as written back between </summary> and
\* </details>
NewExplanation(toks, letters) ==
    <<TokNL, TokCA>> \o JoinLetters(letters) \o <<TokNL>>
       \o Trim(RemoveAnswerLines(toks, 1)) \o <<TokNL>>

\* the early returns of lines 109-163
Analysable(sec) ==
    /\ sec.qtype # <<>>
    /\ Len(sec.expl) > 0
    /\ Len(sec.options) > 0
    /\ AnswersMatch(sec.expl) # 0

\* lines 268-342: the letters compared, the line rewritten, the fixDetails
\* pushed to results.questionDetails (fixed: whether any were pushed)
ApplyFix(sec, current, mentioned) ==
    LET dup == HasDuplicateAnswerLines(sec.expl)
        missing == SelectSeq(mentioned, LAMBDA l : l \notin SeqToSet(current))
        extraneous == SelectSeq(current, LAMBDA l : l \notin SeqToSet(mentioned))
        needToUpdate == /\ Len(mentioned) > 0
                        /\ (Len(missing) > 0 \/ Len(extraneous) > 0)
        newLetters == IF needToUpdate THEN NewCorrectLetters(current, mentioned)
                      ELSE current
    IN  IF ~(needToUpdate \/ dup) THEN [section |-> sec, fixed |-> FALSE]
        ELSE [section |-> [sec EXCEPT !.expl = NewExplanation(sec.expl, newLetters)],
              fixed |-> TRUE,
              fixDetails |->
                 [originalCorrectLetters |-> current,
                  explicitlyMentionedCorrect |-> mentioned,
                  hasDuplicateAnswerLines |-> dup,
                  updated |-> needToUpdate,
                  newCorrectLetters |-> newLetters]]

\* the map callback of lines 98-345 applied to one section
ProcessSection(sec) ==
    IF ~Analysable(sec) THEN [section |-> sec, fixed |-> FALSE]
    ELSE ApplyFix(sec, CurrentCorrectLetters(sec.expl),
                  ExplicitlyMentionedCorrect(sec))

(***************************************************************************)
(* The files handed to the normalizer: a True/False question (A. True,     *)
(* B. False) or a Multi-Select question (A, B, C) whose explanation opens  *)
(* with the answer marker, as in the standardized format, and is then      *)
(* written token by token before the normalizer runs.                      *)
(***************************************************************************)
AuthorToks == {TokCA, TokNL, "A", "B", "(C)", "is correct", "is wrong", "true"}

TrueFalseQuestion ==
    [qtype |-> LblTrueFalse,
     options |-> <<[letter |-> "A", text |-> "true"],
                   [letter |-> "B", text |-> "false"]>>,
     expl |-> <<TokCA>>]

MultiSelectQuestion ==
    [qtype |-> LblMultiSelect,
     options |-> <<[letter |-> "A", text |-> "lima"],
                   [letter |-> "B", text |-> "rome"],
                   [letter |-> "C", text |-> "oslo"]>>,
     expl |-> <<TokCA>>]

\* the author appends one token to the explanation
WriteToken(t) ==
    /\ runs = 0
    /\ section # NoSection
    /\ Len(section.expl) < MaxExpl
    /\ section' = [section EXCEPT !.expl = Append(section.expl, t)]
    /\ UNCHANGED <<content, runs, questionDetails, issues, results>>
    /\ UNCHANGED docVars
    /\ UNCHANGED uiVars

\* node fix_quiz_factchecker.js: one run of processFile over the file
ProcessFile ==
    /\ runs < MaxRuns
    /\ section # NoSection
    /\ \E r \in {ProcessSection(section)} :
           /\ content' = section
           /\ section' = r.section
           /\ questionDetails' = IF r.fixed
                                 THEN Append(questionDetails, r.fixDetails)
                                 ELSE questionDetails
    /\ runs' = runs + 1
    /\ UNCHANGED <<issues, results>>
    /\ UNCHANGED docVars
    /\ UNCHANGED uiVars

UiIdle ==
    /\ markdown = NoMarkdown
    /\ page = NoPage
    /\ dom = NoDom
    /\ checked = {}
    /\ feedback = "feedback"
    /\ display = ""
    /\ btnText = "Check Answer"
    /\ highlighted = {}
    /\ result = NoResult
    /\ changed = FALSE
    /\ stage = "source"

InitNorm ==
    /\ section \in {TrueFalseQuestion, MultiSelectQuestion}
    /\ content = NoSection
    /\ runs = 0
    /\ questionDetails = <<>>
    /\ issues = NoIssues
    /\ results = NoResults
    /\ DocIdle
    /\ UiIdle

NextNorm ==
    \/ \E t \in AuthorToks : WriteToken(t)
    \/ ProcessFile

SpecNorm == InitNorm /\ [][NextNorm]_vars

(***************************************************************************)
(* fix_all_quizzes.js, processFile: the map callback applied to one        *)
(* question section, and fix_answer_discrepancies.js, testFile: the tests  *)
(* of one question section.  The sections carry two more fields:           *)
(*   known   the correctAnswers of the FIX_PATTERNS entry naming this file *)
(*           and question ("": no entry names it)                          *)
(*   closed  whether the </details> tag of the details block is in place   *)
(* The explanation stands between </summary> and </details>, the closing   *)
(* tag right behind its last token.  The quiz title that processFile adds  *)
(* stands before the first section and is no part of a section.            *)
(***************************************************************************)
KnownFixes == {"", "C"}

TokPlaceholder == "[Manual review required]"
TokCheck == "CHECK"                       \* the glyph of CHECKMARK_USAGE

\* correctAnswersMatch[1].split(/[,\s]+/).filter(letter => /^[A-Z]$/.test(letter))
FixAllCorrectLetters(toks) ==
    LET i == AnswersMatch(toks)
    IN  SelectSeq(SubSeq(toks, i + 1, RunEnd(toks, i, LooseToks)), IsUpperLetterTok)

\* detailsContent.replace(CORRECT_ANSWERS_REGEX, `**Correct Answers:** ${text}`):
\* the marker and the whole captured run give way to the new line
ReplaceAnswersMatch(toks, letters) ==
    LET i == AnswersMatch(toks)
    IN  IF i = 0 THEN toks
        ELSE SubSeq(toks, 1, i - 1) \o <<TokCA>> \o letters
               \o SubSeq(toks, RunEnd(toks, i, LooseToks) + 1, Len(toks))

\* newDetailsContent !== detailsContent: the text stays as it was only when
\* the capture is the new letter and the closing tag follows it
ReplaceChangesText(toks, letters) ==
    LET i == AnswersMatch(toks)
        k == RunEnd(toks, i, LooseToks)
    IN  i # 0 /\ ~(SubSeq(toks, i + 1, k) = letters /\ k = Len(toks))

\* a choice question keeps every letter it declares
KeepAllLetters(letters) == letters

\* lines 171-179: more than one letter is cut down to correctLetters[0]
ReduceToFirst(letters) ==
    IF Len(letters) > 1 THEN <<letters[1]>> ELSE letters

RECURSIVE RemovalReachesEnd(_, _)
\* whether a match of /\*\*Correct Answers?:\*\*\s*[^\n]*/g runs to the end
\* of the explanation and so over the </details> behind it
RemovalReachesEnd(toks, i) ==
    IF i > Len(toks) THEN FALSE
    ELSE IF toks[i] = TokCA
         THEN LET k == RunEnd(toks, RunEnd(toks, i, {TokNL}), SameLineToks)
              IN  k = Len(toks) \/ RemovalReachesEnd(toks, k + 1)
    ELSE RemovalReachesEnd(toks, i + 1)

\* cleanContent.replace(/<summary>Show Answer<\/summary>\s*\n/, ...): the line
\* goes in where line breaks follow the summary, and nowhere otherwise
InsertAfterSummary(clean, letters) ==
    IF Len(clean) > 0 /\ clean[1] = TokNL
    THEN <<TokNL, TokNL, TokCA>> \o JoinLetters(letters) \o <<TokNL>>
           \o SubSeq(clean, RunEnd(clean, 0, {TokNL}) + 1, Len(clean))
    ELSE clean

\* steps 3 and 4 (lines 141-188): the known fix, else the Multiple Choice cut
FixAllAnswers(sec) ==
    IF sec.known # ""
    THEN [expl |-> ReplaceAnswersMatch(sec.expl, <<sec.known>>),
          step |-> IF ReplaceChangesText(sec.expl, <<sec.known>>)
                   THEN "specific" ELSE "none"]
    ELSE IF /\ Includes(ToLowerCase(sec.qtype), StrMultipleChoice)
            /\ AnswersMatch(sec.expl) # 0
            /\ Len(FixAllCorrectLetters(sec.expl)) > 1
    THEN LET first == ReduceToFirst(FixAllCorrectLetters(sec.expl))
         IN  [expl |-> ReplaceAnswersMatch(sec.expl, first),
              step |-> IF ReplaceChangesText(sec.expl, first)
                       THEN "choice" ELSE "none"]
    ELSE [expl |-> sec.expl, step |-> "none"]

\* step 5 (lines 190-214): duplicate declarations
FixAllDuplicates(toks) ==
    IF HasDuplicateAnswerLines(toks) /\ AnswersMatch(toks) # 0
    THEN [expl |-> InsertAfterSummary(RemoveAnswerLines(toks, 1),
                                      FixAllCorrectLetters(toks)),
          closed |-> ~RemovalReachesEnd(toks, 1),
          step |-> "other"]
    ELSE [expl |-> toks, closed |-> TRUE, step |-> "none"]

\* the map callback of lines 117-223: the section returned and the counters
FixAllSection(sec) ==
    IF ~sec.closed
    THEN [section |-> sec, results |-> NoResults]
    ELSE LET a == FixAllAnswers(sec)
             d == FixAllDuplicates(a.expl)
         IN  [section |-> [sec EXCEPT !.expl = d.expl, !.closed = d.closed],
              results |->
                 [NoResults EXCEPT
                    !.specificFixes = IF a.step = "specific" THEN 1 ELSE 0,
                    !.multipleChoiceFixed = IF a.step = "choice" THEN 1 ELSE 0,
                    !.otherFixes = IF d.step = "other" THEN 1 ELSE 0]]

\* answerSection.match(PATTERNS.CORRECT_ANSWERS) !== null
MdAnswerLine(toks) ==
    \E i \in 1..Len(toks) :
        /\ toks[i] = TokCA
        /\ LineStart(toks, i)
        /\ i < Len(toks)
        /\ MdAnswerEnds(toks, i) # {}

\* PATTERNS.QUESTION_TYPES.MULTIPLE_SELECT: /multi[- ]select|multiple select/i
AcceptedMultiSelect(title) ==
    \/ Includes(ToLowerCase(title), StrMultiSelect)
    \/ Includes(ToLowerCase(title), StrMultiSpaceSelect)
    \/ Includes(ToLowerCase(title), StrMultipleSelect)

\* testFile, tests 6 and 7 (lines 710-760): the answer line and its letters
AnswerIssues(sec) ==
    LET letters == ParseMdCorrectLetters(sec.expl)
    IN  IF ~MdAnswerLine(sec.expl)
        THEN {"answer format"}
                \cup (IF \E i \in 1..Len(sec.expl) : sec.expl[i] = TokCheck
                      THEN {"checkmarks"} ELSE {})
        ELSE (IF Includes(ToLowerCase(sec.qtype), StrTrueFalse) /\ Len(letters) # 1
              THEN {"True/False arity"}
              ELSE IF /\ Includes(ToLowerCase(sec.qtype), StrMultipleChoice)
                      /\ Len(letters) # 1
              THEN {"Multiple Choice arity"}
              ELSE {})
             \cup (IF SeqToSet(letters) \subseteq
                        {sec.options[i].letter : i \in 1..Len(sec.options)}
                   THEN {} ELSE {"letters match no option"})

\* testFile, the tests of one question section (lines 630-770)
TestSection(sec) ==
    (IF \/ Includes(ToLowerCase(sec.qtype), StrTrueFalse)
        \/ Includes(ToLowerCase(sec.qtype), StrMultipleChoice)
        \/ AcceptedMultiSelect(sec.qtype)
     THEN {} ELSE {"question type"})
    \cup (IF Len(sec.options) > 0 THEN {} ELSE {"option format"})
    \cup (IF ~sec.closed THEN {"section structure"}
          ELSE (IF \E i \in 1..Len(sec.expl) : sec.expl[i] = TokPlaceholder
                THEN {"placeholder text"} ELSE {})
               \cup AnswerIssues(sec))

(***************************************************************************)
(* The files given to fix_all_quizzes.js: a question in the standardized   *)
(* layout, the line break after the summary and the answer marker in       *)
(* place, the rest of the explanation written token by token.  A known fix *)
(* names the letter C, so only questions with an option C have one.        *)
(***************************************************************************)
FixAllToks == {TokCA, TokNL, TokComma, "A", "B", "true"}

MultipleChoiceQuestion ==
    [qtype |-> LblMultipleChoice,
     options |-> <<[letter |-> "A", text |-> "lima"],
                   [letter |-> "B", text |-> "rome"],
                   [letter |-> "C", text |-> "oslo"]>>,
     expl |-> <<TokCA>>]

FixAllSection0(q, k) ==
    [qtype |-> q.qtype, options |-> q.options, expl |-> <<TokNL, TokCA>>,
     known |-> k, closed |-> TRUE]

FixAllSections ==
    {FixAllSection0(TrueFalseQuestion, "")}
    \cup {FixAllSection0(q, k) :
            q \in {MultipleChoiceQuestion, MultiSelectQuestion}, k \in KnownFixes}

\* node fix_all_quizzes.js: one run of processFile over the file
FixAllProcessFile ==
    /\ runs < MaxRuns
    /\ section # NoSection
    /\ \E r \in {FixAllSection(section)} :
           /\ content' = section
           /\ section' = r.section
           /\ results' = r.results
    /\ runs' = runs + 1
    /\ issues' = NoIssues
    /\ UNCHANGED questionDetails
    /\ UNCHANGED docVars
    /\ UNCHANGED uiVars

\* node fix_answer_discrepancies.js: testFile over the file the fixer left
TestFile ==
    /\ runs >= 1
    /\ section # NoSection
    /\ ~issues.tested
    /\ issues' = [tested |-> TRUE, found |-> TestSection(section)]
    /\ UNCHANGED <<section, content, runs, questionDetails, results>>
    /\ UNCHANGED docVars
    /\ UNCHANGED uiVars

InitFixAll ==
    /\ section \in FixAllSections
    /\ content = NoSection
    /\ runs = 0
    /\ questionDetails = <<>>
    /\ issues = NoIssues
    /\ results = NoResults
    /\ DocIdle
    /\ UiIdle

NextFixAll ==
    \/ \E t \in FixAllToks : WriteToken(t)
    \/ FixAllProcessFile
    \/ TestFile

SpecFixAll == InitFixAll /\ [][NextFixAll]_vars

(***************************************************************************)
(* The quiz repair script (part_000), fixFile: the map callback applied to *)
(* one question section that is not the last of its file.  The sections    *)
(* carry the fields                                                        *)
(*   closed      whether the section has a details block                   *)
(*   separators  the number of --- lines at the end of the section         *)
(* The options are in the "- [ ] A. text" format, so that the option       *)
(* formatting of lines 106-123 finds nothing to do.                        *)
(***************************************************************************)
TokCorrectColon == "correct:"

\* the characters [^\n] of an explanation of these files
RepairLineToks == SameLineToks \cup {TokCheck, TokPlaceholder, TokCorrectColon}

\* lines 125-141: the details block given to a section that has none
DefaultDetails == <<TokNL, TokNL, TokCA, "A", TokNL, "BOLD", TokNL, "word", ".", TokNL>>

\* explanationText.includes(`${mark} ${optionText}`) for a mark of marks,
\* option by option: the letters pushed by the forEach
MarkedLetters(sec, marks) ==
    LET marked(o) == \E i \in 1..(Len(sec.expl) - 1) :
                        sec.expl[i] \in marks /\ sec.expl[i + 1] = o.text
        letterOf(o) == o.letter
        RECURSIVE collect(_)
        collect(k) == IF k > Len(sec.options) THEN <<>>
                      ELSE (IF marked(sec.options[k])
                            THEN <<letterOf(sec.options[k])>> ELSE <<>>)
                           \o collect(k + 1)
    IN  collect(1)

\* a default that names one letter for every type
FirstOptionDefault(sec) ==
    IF Includes(sec.qtype, LblTrueFalse) THEN <<"B">> ELSE <<"A">>

\* lines 172-184: the default of the placeholder branch
PlaceholderDefault(sec) ==
    IF Includes(sec.qtype, LblTrueFalse) THEN <<"B">>
    ELSE IF Includes(sec.qtype, LblMultipleChoice) THEN <<"A">>
    ELSE IF Len(sec.options) >= 2 THEN <<"A", "B">> ELSE <<"A">>

\* lines 218-238: the default of the answer format branch
FormatDefault(sec) ==
    IF Includes(sec.qtype, LblTrueFalse)
    THEN IF /\ \E i \in 1..Len(sec.expl) : sec.expl[i] = "true"
            /\ ~\E i \in 1..Len(sec.expl) : sec.expl[i] = "false"
         THEN <<"A">> ELSE <<"B">>
    ELSE <<"A">>

\* lines 159-184: the letters of the placeholder branch
PlaceholderLetters(sec) ==
    LET found == MarkedLetters(sec, {TokCheck})
    IN  IF found # <<>> THEN found ELSE PlaceholderDefault(sec)

\* letters taken from the check glyphs alone
FormatLettersGlyphOnly(sec) ==
    LET found == MarkedLetters(sec, {TokCheck})
    IN  IF found # <<>> THEN found ELSE FormatDefault(sec)

\* lines 204-238: the letters of the answer format branch
FormatLetters(sec) ==
    LET found == MarkedLetters(sec, {TokCheck, TokCorrectColon})
    IN  IF found # <<>> THEN found ELSE FormatDefault(sec)

\* /^\*\*Correct Answers?:\*\*\s+\[.+\]/m: a marker at a line start with a
\* bracketed text behind it
PlaceholderLineStarts(toks) ==
    {i \in 1..Len(toks) :
        /\ toks[i] = TokCA
        /\ LineStart(toks, i)
        /\ RunEnd(toks, i, {TokNL}) < Len(toks)
        /\ toks[RunEnd(toks, i, {TokNL}) + 1] = TokPlaceholder}

\* /^\*\*Correct Answers?:\*\*\s+\[.+\]$/m: such a line that ends with the
\* closing bracket
PlaceholderLineMatches(toks) ==
    {i \in PlaceholderLineStarts(toks) :
        toks[RunEnd(toks, RunEnd(toks, i, {TokNL}), RepairLineToks)] = TokPlaceholder}

\* lines 188-197: the placeholder line replaced, or the line put in front
ReplacePlaceholderLine(toks, letters) ==
    IF PlaceholderLineStarts(toks) = {}
    THEN <<TokNL, TokCA>> \o JoinLetters(letters) \o toks
    ELSE IF PlaceholderLineMatches(toks) = {} THEN toks
    ELSE LET i == CHOOSE x \in PlaceholderLineMatches(toks) :
                     \A y \in PlaceholderLineMatches(toks) : x <= y
             k == RunEnd(toks, RunEnd(toks, i, {TokNL}), RepairLineToks)
         IN  SubSeq(toks, 1, i - 1) \o <<TokCA>> \o JoinLetters(letters)
               \o SubSeq(toks, k + 1, Len(toks))

\* part_001, parseMarkdownQuestions (lines 380-401): the correct letters of
\* a question, from the answer line or else from the check glyphs
ParseQuestionLetters(sec) ==
    IF ~sec.closed THEN <<>>
    ELSE IF MdAnswerLine(sec.expl) THEN ParseMdCorrectLetters(sec.expl)
    ELSE IF \E i \in 1..Len(sec.expl) : sec.expl[i] = TokCheck
    THEN MarkedLetters(sec, {TokCheck})
    ELSE <<>>

\* lines 143-255: the answer format of a section that has a details block
FixAnswerFormat(sec) ==
    IF \E i \in 1..Len(sec.expl) : sec.expl[i] = TokPlaceholder
    THEN [expl |-> ReplacePlaceholderLine(sec.expl, PlaceholderLetters(sec)),
          branch |-> "placeholder"]
    ELSE IF ~MdAnswerLine(sec.expl)
    THEN [expl |-> <<TokNL, TokCA>> \o JoinLetters(FormatLetters(sec)) \o sec.expl,
          branch |-> "format"]
    ELSE [expl |-> sec.expl, branch |-> "none"]

\* the option line as the file holds it: the box, the letter if any, the text
OptionLine(o) ==
    <<"- [", o.mark, "]">> \o (IF o.letter = "" THEN <<>> ELSE <<o.letter, ".">>)
        \o <<o.text>>

\* every option line takes the letter A
LetterEveryLineA(options) ==
    [i \in 1..Len(options) |-> [letter |-> "A", text |-> options[i].text, mark |-> " "]]

\* lines 110-116: the forEach replaces, for the match idx, the first line of
\* the section that still reads as the match read, by the line with the
\* letter of idx
RECURSIVE ReplaceOptionLines(_, _, _)
ReplaceOptionLines(lines, olds, idx) ==
    IF idx > Len(olds) THEN lines
    ELSE LET hits == {k \in 1..Len(lines) : OptionLine(lines[k]) = OptionLine(olds[idx])}
             newLine == [letter |-> OptionLetters[idx], text |-> olds[idx].text,
                         mark |-> " "]
         IN  IF hits = {} THEN ReplaceOptionLines(lines, olds, idx + 1)
             ELSE LET first == CHOOSE k \in hits : \A h \in hits : k <= h
                  IN  ReplaceOptionLines([lines EXCEPT ![first] = newLine], olds, idx + 1)

LetterOptionLines(options) == ReplaceOptionLines(options, options, 1)

\* lines 106-123: the option lines are lettered when no line of the section
\* is an unchecked option that has a letter
FixOptionFormat(sec) ==
    IF /\ Len(sec.options) > 0
       /\ ~\E i \in 1..Len(sec.options) :
              sec.options[i].mark = " " /\ sec.options[i].letter # ""
    THEN [sec EXCEPT !.options = LetterOptionLines(sec.options)]
    ELSE sec

\* the map callback of lines 103-268
FixFileSection(sec0) ==
    LET sec == FixOptionFormat(sec0)
        withDetails == IF sec.closed THEN sec
                       ELSE [sec EXCEPT !.expl = DefaultDetails, !.closed = TRUE]
        f == FixAnswerFormat(withDetails)
        \* lines 247-254: the block is written back with a line break before
        \* the closing tag whenever the explanation changed
        expl == IF f.expl # withDetails.expl THEN Append(f.expl, TokNL)
                ELSE withDetails.expl
    IN  [section |-> [withDetails EXCEPT !.expl = expl,
                                         !.separators = sec.separators + 1],
         results |->
            [NoResults EXCEPT
               !.optionFormatsFixed = IF sec # sec0 THEN 1 ELSE 0,
               !.detailsAdded = IF sec.closed THEN 0 ELSE 1,
               !.placeholdersFixed = IF f.branch = "placeholder" THEN 1 ELSE 0,
               !.answerFormatsFixed = IF f.branch = "format" THEN 1 ELSE 0,
               !.separatorsAdded = 1]]

(***************************************************************************)
(* The files given to the repair script: a True/False, a Multiple Choice   *)
(* or a Multi-Select question, either without a details block or with one  *)
(* whose explanation starts on the line after the summary and is written   *)
(* token by token from the marks the script looks for and the texts of the *)
(* question's first two options.                                           *)
(***************************************************************************)
RepairToks(sec) ==
    {TokNL, TokCA, TokCheck, TokPlaceholder, TokCorrectColon,
     sec.options[1].text, sec.options[2].text}

RepairSection(q, c) ==
    [qtype |-> q.qtype,
     options |-> [i \in 1..Len(q.options) |->
                    [letter |-> q.options[i].letter, text |-> q.options[i].text,
                     mark |-> " "]],
     expl |-> IF c THEN <<TokNL>> ELSE <<>>,
     closed |-> c, separators |-> 1]

RepairSections ==
    {RepairSection(q, c) :
        q \in {TrueFalseQuestion, MultipleChoiceQuestion, MultiSelectQuestion},
        c \in BOOLEAN}

\* the author appends one token to the explanation in the details block
WriteExplanation(t) ==
    /\ runs = 0
    /\ section.closed
    /\ Len(section.expl) < MaxExpl
    /\ section' = [section EXCEPT !.expl = Append(section.expl, t)]
    /\ UNCHANGED <<content, runs, questionDetails, issues, results>>
    /\ UNCHANGED docVars
    /\ UNCHANGED uiVars

\* node fix_quizzes.js: one run of fixFile over the file
FixFile ==
    /\ runs < MaxRuns
    /\ \E r \in {FixFileSection(section)} :
           /\ content' = section
           /\ section' = r.section
           /\ results' = r.results
    /\ runs' = runs + 1
    /\ UNCHANGED <<questionDetails, issues>>
    /\ UNCHANGED docVars
    /\ UNCHANGED uiVars

InitFixFile ==
    /\ section \in RepairSections
    /\ content = NoSection
    /\ runs = 0
    /\ questionDetails = <<>>
    /\ issues = NoIssues
    /\ results = NoResults
    /\ DocIdle
    /\ UiIdle

NextFixFile ==
    \/ \E t \in RepairToks(section) : WriteExplanation(t)
    \/ FixFile

SpecFixFile == InitFixFile /\ [][NextFixFile]_vars

(***************************************************************************)
(* The same script over files whose option lines carry no letter: every    *)
(* line is '- [ ] text', or the first is '- [x] text'.                     *)
(***************************************************************************)
UnletteredSection(sec, firstMark) ==
    [sec EXCEPT !.options =
        [i \in 1..Len(sec.options) |->
            [letter |-> "", text |-> sec.options[i].text,
             mark |-> IF i = 1 THEN firstMark ELSE " "]]]

UnletteredSections ==
    {UnletteredSection(sec, firstMark) :
        sec \in RepairSections, firstMark \in {" ", "x"}}

InitReletter ==
    /\ section \in UnletteredSections
    /\ content = NoSection
    /\ runs = 0
    /\ questionDetails = <<>>
    /\ issues = NoIssues
    /\ results = NoResults
    /\ DocIdle
    /\ UiIdle

NextReletter ==
    \/ \E t \in RepairToks(section) : WriteExplanation(t)
    \/ FixFile

SpecReletter == InitReletter /\ [][NextReletter]_vars

(***************************************************************************)
(* The test scripts at the level of the file: test_quiz_questions.js,      *)
(* parseMarkdownFile, and fix_quiz_factchecker.js, testMarkdownFile.  A    *)
(* file is an optional title section and the sections that the split at    *)
(* "### Question N" yields, numbered in order; a section keeps the fields  *)
(* qtype (<<>>: the header has no type in parentheses), options, expl and  *)
(* closed (whether it has a details block).                                *)
(***************************************************************************)
StrTrue == <<"t","r","u","e">>
StrFalse == <<"f","a","l","s","e">>

\* lines 58-66: the type names of QUESTION_TYPES, 'Unknown' without a type
StandardType(label) ==
    IF label = <<>> THEN "Unknown"
    ELSE IF /\ Includes(ToLowerCase(label), StrTrue)
            /\ Includes(ToLowerCase(label), StrFalse) THEN "True/False"
    ELSE IF Includes(ToLowerCase(label), StrMultipleChoice) THEN "Multiple Choice"
    ELSE IF \/ Includes(ToLowerCase(label), StrMultiSelect)
            \/ Includes(ToLowerCase(label), StrMultipleSelect) THEN "Multi-Select"
    ELSE "other"

\* explanation.match(/\*\*Correct Answers?:\*\*\s+([A-Z,\s]+)/i): the first
\* marker with white space and one more character of the class behind it
ParseFileAnswersMatch(toks) ==
    LET hits == {i \in 1..(Len(toks) - 1) :
                    /\ toks[i] = TokCA
                    /\ toks[i + 1] \in LooseToks \ {TokComma}
                    /\ (toks[i + 1] = TokNL => RunEnd(toks, i, LooseToks) >= i + 2)}
    IN  IF hits = {} THEN 0 ELSE CHOOSE i \in hits : \A j \in hits : i <= j

\* lines 90-101: correctLetters
ParseFileCorrectLetters(sec) ==
    IF ~sec.closed \/ ParseFileAnswersMatch(sec.expl) = 0 THEN <<>>
    ELSE LET i == ParseFileAnswersMatch(sec.expl)
         IN  SelectSeq(SubSeq(sec.expl, i + 1, RunEnd(sec.expl, i, LooseToks)),
                       IsUpperLetterTok)

\* lines 51-112: the question pushed for the section with header number k
ParseQuestion(k, sec) ==
    [number |-> k,
     type |-> StandardType(sec.qtype),
     options |-> sec.options,
     correctLetters |-> ParseFileCorrectLetters(sec)]

RECURSIVE ParseUntilMalformed(_, _)
\* a parser that gives up at the first section without options
ParseUntilMalformed(secs, k) ==
    IF k > Len(secs) \/ secs[k].options = <<>> THEN <<>>
    ELSE <<ParseQuestion(k, secs[k])>> \o ParseUntilMalformed(secs, k + 1)

RECURSIVE ParseQuestions(_, _)
\* lines 46-117: the forEach over the sections, from section k on
ParseQuestions(secs, k) ==
    IF k > Len(secs) THEN <<>>
    ELSE <<ParseQuestion(k, secs[k])>> \o ParseQuestions(secs, k + 1)

\* testMarkdownFile, lines 526-582: the issues pushed for question k
MarkdownIssues(k, sec) ==
    (IF sec.options = <<>> THEN {<<k, "option-format">>} ELSE {})
    \cup (IF ~sec.closed THEN {<<k, "missing-details">>}
          ELSE (IF \E i \in 1..Len(sec.expl) : sec.expl[i] = TokPlaceholder
                THEN {<<k, "placeholder">>} ELSE {})
               \cup (IF MdAnswerLine(sec.expl) THEN {}
                     ELSE {<<k, "answer-format">>}))

\* the sections a file can hold
QuestionShapes ==
    {[qtype |-> label, options |-> opts,
      expl |-> IF c THEN <<TokNL, TokCA, "A", TokNL>> ELSE <<>>,
      closed |-> c] :
        label \in {LblTrueFalse, <<>>},
        opts \in {<<>>, TrueFalseQuestion.options},
        c \in BOOLEAN}

Documents ==
    UNION {{[title |-> t, questions |-> qs] :
               t \in BOOLEAN, qs \in [1..n -> QuestionShapes]} :
           n \in 0..MaxQuestions}

\* test_quiz_questions.js: parseMarkdownFile(filePath)
ParseMarkdownFile ==
    /\ ~fileInfo.returned
    /\ fileInfo' = [returned |-> TRUE, threw |-> FALSE,
                    questions |-> ParseQuestions(document.questions, 1)]
    /\ UNCHANGED <<section, content, runs, questionDetails, issues, results,
                   document>>
    /\ UNCHANGED toolVars
    /\ UNCHANGED uiVars

\* fix_quiz_factchecker.js: testMarkdownFile(filePath)
TestMarkdownFile ==
    /\ ~issues.tested
    /\ issues' = [tested |-> TRUE,
                  found |-> UNION {MarkdownIssues(k, document.questions[k]) :
                                      k \in 1..Len(document.questions)}]
    /\ UNCHANGED <<section, content, runs, questionDetails, results,
                   document, fileInfo>>
    /\ UNCHANGED toolVars
    /\ UNCHANGED uiVars

InitDoc ==
    /\ document \in Documents
    /\ fileInfo = NoFileInfo
    /\ ToolIdle
    /\ NormIdleSection
    /\ issues = NoIssues
    /\ results = NoResults
    /\ UiIdle

NextDoc ==
    \/ ParseMarkdownFile
    \/ TestMarkdownFile

SpecDoc == InitDoc /\ [][NextDoc]_vars

(***************************************************************************)
(* fix_answer_discrepancies.js, checkQuizFile: the numbering test of one   *)
(* file.  The file is the sequence of its question headers in document     *)
(* order, each a number and a type label, as the matchAll of line 286     *)
(* finds them.                                                             *)
(***************************************************************************)
MIN_QUESTIONS == 8

\* CONFIG.EXPECTED_TYPES: the percentages allowed for each type
EXPECTED_TYPES ==
    [type \in {"True/False", "Multiple Choice", "Multi-Select"} |->
        IF type = "Multi-Select" THEN [min |-> 40, max |-> 70]
        ELSE [min |-> 15, max |-> 30]]

\* normalizeQuestionType(type)
NormalizeQuestionType(label) ==
    IF /\ Includes(ToLowerCase(label), StrTrue)
       /\ Includes(ToLowerCase(label), StrFalse) THEN "True/False"
    ELSE IF Includes(ToLowerCase(label), StrMultipleChoice) THEN "Multiple Choice"
    ELSE IF \/ Includes(ToLowerCase(label), StrMultiSelect)
            \/ Includes(ToLowerCase(label), StrMultipleSelect) THEN "Multi-Select"
    ELSE "Other"

\* a numbering test that never misses a number
NoMissingNumbers(nums) == {}

\* lines 333-337: the numbers of 1..length that no header carries
MissingNumbers(nums) ==
    {num \in 1..Len(nums) : \A i \in 1..Len(nums) : nums[i] # num}

\* line 340: the numbers that more than one header carries
DuplicateNumbers(nums) ==
    {nums[i] : i \in {j \in 1..Len(nums) : \E k \in 1..(j - 1) : nums[k] = nums[j]}}

\* questions.map(q => q.number).sort((a, b) => a - b)
RECURSIVE SortNumbers(_)
SortNumbers(nums) ==
    IF nums = <<>> THEN <<>>
    ELSE LET least == CHOOSE i \in 1..Len(nums) :
                          \A j \in 1..Len(nums) : nums[i] <= nums[j]
         IN  <<nums[least]>>
               \o SortNumbers([j \in 1..(Len(nums) - 1) |->
                                  IF j < least THEN nums[j] ELSE nums[j + 1]])

\* line 343: the test is made on the sorted numbers
OutOfOrder(sorted) ==
    ~\A idx \in 1..Len(sorted) : idx = 1 \/ sorted[idx] > sorted[idx - 1]

\* lines 376-396: the share of each expected type against its range
DistributionIssues(headers) ==
    LET count(type) == Cardinality({i \in 1..Len(headers) :
                           NormalizeQuestionType(headers[i].qtype) = type})
    IN  IF \E type \in DOMAIN EXPECTED_TYPES :
               \/ count(type) * 100 < EXPECTED_TYPES[type].min * Len(headers)
               \/ count(type) * 100 > EXPECTED_TYPES[type].max * Len(headers)
        THEN {"Question Type Distribution"} ELSE {}

\* lines 281-410: the issue types pushed for the file
QuizFileIssues(headers) ==
    IF Len(headers) = 0 THEN {"Missing Questions"}
    ELSE LET questionNumbers == SortNumbers([i \in 1..Len(headers) |-> headers[i].number])
         IN  (IF Len(headers) < MIN_QUESTIONS THEN {"Question Count"} ELSE {})
             \cup (IF MissingNumbers(questionNumbers) # {}
                   THEN {"Missing Question Numbers"} ELSE {})
             \cup (IF DuplicateNumbers(questionNumbers) # {}
                   THEN {"Duplicate Question Numbers"} ELSE {})
             \cup (IF OutOfOrder(questionNumbers) THEN {"Question Order"} ELSE {})
             \cup DistributionIssues(headers)

\* the headers a file can hold: any numbers in any order
QuizHeaders ==
    [number : 1..(MaxQuestions + 1), qtype : {LblTrueFalse, LblMultiSelect}]

NumberedDocuments ==
    UNION {{[title |-> TRUE, questions |-> qs] : qs \in [1..n -> QuizHeaders]} :
           n \in 0..MaxQuestions}

\* node test_missing_questions.js: checkQuizFile(filePath)
CheckQuizFile ==
    /\ ~issues.tested
    /\ issues' = [tested |-> TRUE, found |-> QuizFileIssues(document.questions)]
    /\ UNCHANGED <<section, content, runs, questionDetails, results,
                   document, fileInfo>>
    /\ UNCHANGED toolVars
    /\ UNCHANGED uiVars

InitCheck ==
    /\ document \in NumberedDocuments
    /\ fileInfo = NoFileInfo
    /\ ToolIdle
    /\ NormIdleSection
    /\ issues = NoIssues
    /\ results = NoResults
    /\ UiIdle

NextCheck == CheckQuizFile

SpecCheck == InitCheck /\ [][NextCheck]_vars

(***************************************************************************)
(* combine_quizzes.js: a questions file and an answers file, both split at *)
(* '---'.  A question section is its number; an answer section is the      *)
(* number of its header, the question number its body mentions (0 for      *)
(* none) and whether its body is empty.  The answer of a section is named  *)
(* by the section's number.                                                *)
(***************************************************************************)
QuestionNumbers == {1, 2, 10}

\* "Question n" is a piece of "Question m": the digits of n start those of m
RECURSIVE IsDigitPrefix(_, _)
IsDigitPrefix(n, m) ==
    \/ n = m
    \/ m >= 10 /\ IsDigitPrefix(n, m \div 10)

\* the header of the section carries exactly the number
NamesQuestion(a, n) == a.number = n

\* a.includes(`Question ${questionNum}`)
SectionIncludes(a, n) ==
    \/ IsDigitPrefix(n, a.number)
    \/ a.mentions # 0 /\ IsDigitPrefix(n, a.mentions)

\* lines 77-84: the section without header and title; 0 stands for ''
AnswerOf(a) == IF a.blank THEN 0 ELSE a.number

\* lines 63-93: the answer taken for the question section of index i
CombineQuestion(answers, i, n) ==
    LET hits == {k \in 1..Len(answers) : SectionIncludes(answers[k], n)}
        matching == IF hits = {} THEN 0
                    ELSE AnswerOf(answers[CHOOSE k \in hits : \A h \in hits : k <= h])
        positional == matching = 0 /\ i <= Len(answers)
    IN  [number |-> n,
         answer |-> IF positional THEN AnswerOf(answers[i]) ELSE matching,
         fallback |-> positional]

InjectiveSeqs(S, n) ==
    {f \in [1..n -> S] : \A i, j \in 1..n : f[i] = f[j] => i = j}

QuestionFiles ==
    UNION {{[title |-> TRUE, questions |-> [i \in 1..n |-> [number |-> f[i]]]] :
               f \in InjectiveSeqs(QuestionNumbers, n)} : n \in 1..MaxQuestions}

AnswerSections ==
    {a \in [number : QuestionNumbers, mentions : {0} \cup QuestionNumbers,
            blank : BOOLEAN] :
        /\ a.mentions # a.number
        /\ a.blank => a.mentions = 0}

AnswerFiles ==
    UNION {{f \in [1..n -> AnswerSections] :
               \A i, j \in 1..n : f[i].number = f[j].number => i = j} :
           n \in 0..MaxQuestions}

\* node combine_quizzes.js: one pair of files is combined
CombineFiles ==
    /\ ~combined.written
    /\ combined' = [written |-> TRUE,
                    pairs |-> [i \in 1..Len(document.questions) |->
                                 CombineQuestion(answerFile, i,
                                                 document.questions[i].number)]]
    /\ UNCHANGED <<section, content, runs, questionDetails, issues, results,
                   document, fileInfo, answerFile, submitted, reads, output,
                   quizHtml>>
    /\ UNCHANGED uiVars

InitCombine ==
    /\ document \in QuestionFiles
    /\ answerFile \in AnswerFiles
    /\ combined = NoCombined
    /\ fileInfo = NoFileInfo
    /\ submitted = <<>> /\ reads = {} /\ output = NoOutput
    /\ quizHtml = NoQuizHtml
    /\ NormIdleSection
    /\ issues = NoIssues
    /\ results = NoResults
    /\ UiIdle

NextCombine == CombineFiles

SpecCombine == InitCombine /\ [][NextCombine]_vars

(***************************************************************************)
(* quiz-converter.js: the converter page.  A file is whether it has a      *)
(* '# ' title line and how many of its sections have a '### ' header; a    *)
(* read in flight is the submit that started it and its file.              *)
(***************************************************************************)
MaxSubmits == 3

ConverterFiles == [titled : BOOLEAN, questions : 0..1]

\* convertMarkdownToInteractive(markdown)
ConvertMarkdownToInteractive(file) ==
    [converted |-> TRUE,
     title |-> IF file.titled THEN "own" ELSE "Quiz",
     blocks |-> file.questions]

\* lines 7-23: a submit with a file chosen starts a read of it with a new
\* FileReader (a submit with no file chosen does nothing)
Submit(file) ==
    /\ Len(submitted) < MaxSubmits
    /\ submitted' = Append(submitted, file)
    /\ reads' = reads \cup {[submit |-> Len(submitted) + 1, file |-> file]}
    /\ UNCHANGED <<section, content, runs, questionDetails, issues, results,
                   document, fileInfo, answerFile, combined, output, quizHtml>>
    /\ UNCHANGED uiVars

\* lines 15-19: reader.onload of one of the reads in flight, in any order
ReaderOnload(read) ==
    /\ read \in reads
    /\ output' = ConvertMarkdownToInteractive(read.file)
    /\ reads' = reads \ {read}
    /\ UNCHANGED <<section, content, runs, questionDetails, issues, results,
                   document, fileInfo, answerFile, combined, submitted, quizHtml>>
    /\ UNCHANGED uiVars

InitConvert ==
    /\ submitted = <<>>
    /\ reads = {}
    /\ output = NoOutput
    /\ document = NoDocument /\ fileInfo = NoFileInfo
    /\ answerFile = <<>> /\ combined = NoCombined
    /\ quizHtml = NoQuizHtml
    /\ NormIdleSection
    /\ issues = NoIssues
    /\ results = NoResults
    /\ UiIdle

NextConvert ==
    \/ \E file \in ConverterFiles : Submit(file)
    \/ \E read \in reads : ReaderOnload(read)

SpecConvert == InitConvert /\ [][NextConvert]_vars

(***************************************************************************)
(* build.js, generateQuizHtml over a whole file.  The file is the sequence *)
(* of the pieces markdown.split('---') yields; a piece is blank, text      *)
(* without a '### ' header (a title, or what follows a '---' inside a      *)
(* question), or a run of one or two question headers with their bodies.   *)
(* The questions are numbered 1, 2, ... in the order of the file.          *)
(***************************************************************************)
PieceKinds == {"blank", "text", "one header", "two headers"}

HeadersIn(kind) ==
    IF kind = "one header" THEN 1 ELSE IF kind = "two headers" THEN 2 ELSE 0

\* the number of question headers in the pieces before the piece k
RECURSIVE HeadersBefore(_, _)
HeadersBefore(pieces, k) ==
    IF k <= 1 THEN 0
    ELSE HeadersBefore(pieces, k - 1) + HeadersIn(pieces[k - 1])

\* line 104: .map(section => section.trim()).filter(section => section.length > 0)
RECURSIVE NonEmptySections(_, _)
NonEmptySections(pieces, k) ==
    IF k > Len(pieces) THEN <<>>
    ELSE (IF pieces[k] = "blank" THEN <<>>
          ELSE <<[kind |-> pieces[k],
                  first |-> HeadersBefore(pieces, k) + 1]>>)
         \o NonEmptySections(pieces, k + 1)

\* `data-question-index="${index}"` for the section at position index + 1
DataQuestionIndex(index) == index

\* lines 110-144: one block for each section in which '### ' is found, headed
\* by the first header of the section
RECURSIVE QuestionBlocks(_, _)
QuestionBlocks(sections, k) ==
    IF k > Len(sections) THEN <<>>
    ELSE (IF HeadersIn(sections[k].kind) = 0 THEN <<>>
          ELSE <<[index |-> DataQuestionIndex(k - 1),
                  question |-> sections[k].first]>>)
         \o QuestionBlocks(sections, k + 1)

\* checkHtmlCorrectAnswers: the block found for a question, by
\* data-question-index="${question.number - 1}"; <<>> when none matches
HtmlQuestionMatch(blocks, number) ==
    LET hits == {k \in 1..Len(blocks) : blocks[k].index = number - 1}
    IN  IF hits = {} THEN <<>>
        ELSE <<blocks[CHOOSE k \in hits : \A h \in hits : k <= h]>>

PieceFiles ==
    UNION {{[title |-> TRUE, pieces |-> f] : f \in [1..n -> PieceKinds]} :
           n \in 1..(MaxQuestions + 1)}

\* node build.js: generateQuizHtml(markdownPath) for one file
GenerateQuizHtml ==
    /\ ~quizHtml.built
    /\ quizHtml' = [built |-> TRUE,
                    blocks |-> QuestionBlocks(NonEmptySections(document.pieces, 1), 1)]
    /\ UNCHANGED <<section, content, runs, questionDetails, issues, results,
                   document, fileInfo, answerFile, combined, submitted, reads,
                   output>>
    /\ UNCHANGED uiVars

InitBuildFile ==
    /\ document \in PieceFiles
    /\ fileInfo = NoFileInfo
    /\ answerFile = <<>> /\ combined = NoCombined
    /\ submitted = <<>> /\ reads = {} /\ output = NoOutput
    /\ quizHtml = NoQuizHtml
    /\ NormIdleSection
    /\ issues = NoIssues
    /\ results = NoResults
    /\ UiIdle

NextBuildFile == GenerateQuizHtml

SpecBuildFile == InitBuildFile /\ [][NextBuildFile]_vars

(***************************************************************************)
(* Claims about the renderer and the grader, checked under Spec.           *)
(***************************************************************************)
\* A check click has been handled and no input was clicked since.
JustChecked == stage = "loaded" /\ dom.block /\ result.kind # "none" /\ ~changed

TaggedCorrect == {i \in 1..Len(dom.inputs) : dom.inputs[i] = "true"}

\* C1 as stated: after a check click that reported an outcome, the outcome is
\* "correct" exactly when every input's checked state equals its data-correct
\* tag, and "incorrect" for every other non-empty selection.
C1_CorrectIffEveryTagMatches ==
    (JustChecked /\ result.kind = "returned") =>
        /\ (feedback = "feedback correct") <=> (checked = TaggedCorrect)
        /\ (checked # {} /\ checked # TaggedCorrect)
               => feedback = "feedback incorrect"

\* C1 amended: after a check click, the outcome is "correct" exactly when at
\* least one input is checked and every input's checked state equals its tag,
\* and "incorrect" exactly for every other non-empty selection (no partial
\* credit); an empty selection is never reported correct.
C1_CorrectIffNonEmptyExactMatch ==
    JustChecked =>
        /\ (feedback = "feedback correct")
               <=> (checked # {} /\ checked = TaggedCorrect)
        /\ (result.kind = "returned" /\ checked # {} /\ checked # TaggedCorrect)
               => feedback = "feedback incorrect"
        /\ (feedback = "feedback incorrect")
               => (checked # {} /\ checked # TaggedCorrect)

\* C1 witness: tags {A, C}, the user checked exactly A and C and was graded
C1_Witness ==
    /\ JustChecked
    /\ dom.inputs = <<"true", "false", "true">>
    /\ checked = {1, 3}
    /\ feedback = "feedback correct"

\* every option line of the section is written "- [ ] L. text"
Standardized(sec) == \A i \in 1..Len(sec.options) : sec.options[i].mark = " "

\* C2: for a question in the standardized format, each emitted control's
\* data-correct tag is true exactly when its letter is among the letters the
\* "Correct Answers" line declares, so the tags read back from the page give
\* the declared set.
C2_TagsMatchDeclaredLetters ==
    (stage = "built" /\ page.block /\ Standardized(markdown)) =>
        /\ \A i \in 1..Len(page.options) :
              (page.options[i].dataCorrect = "true")
                 <=> (page.options[i].letter
                         \in SeqToSet(ParseMdCorrectLetters(markdown.expl)))
        /\ ParseHtmlCorrectLetters(page)
              = SeqToSet(ParseMdCorrectLetters(markdown.expl))

\* C3: a check click with no input checked reports the "no selection" outcome
\* (warning feedback, hasSelection = false), never "incorrect", for every
\* question block.
C3_NoSelectionIsWarning ==
    (JustChecked /\ checked = {}) =>
        /\ result.kind = "returned"
        /\ ~result.hasSelection
        /\ feedback = "feedback warning"


\* C4: the renderer emits checkboxes exactly when the header's type label is
\* an accepted Multi-Select variant, and radio inputs otherwise.
C4_CheckboxIffMultiSelect ==
    (stage = "built" /\ page.block) =>
        /\ (page.inputType = "checkbox") <=> AcceptedMultiSelect(markdown.header)
        /\ (page.inputType = "radio") <=> ~AcceptedMultiSelect(markdown.header)

(***************************************************************************)
(* Claims about the normalizer, checked under SpecNorm.                    *)
(***************************************************************************)
\* some run of processFile has rewritten the question
Fixed == Len(questionDetails) > 0

\* the fixDetails of the latest rewrite
LastFix == questionDetails[Len(questionDetails)]

OptionLettersOf(sec) == {sec.options[i].letter : i \in 1..Len(sec.options)}

\* the letters standing on the first "Correct Answers" line of an
\* explanation: the single upper-case letters between the marker and the end
\* of its line
LettersOnAnswerLine(toks) ==
    LET marks == {i \in 1..Len(toks) : toks[i] = TokCA}
        i == CHOOSE m \in marks : \A n \in marks : m <= n
    IN  IF marks = {} THEN <<>>
        ELSE SelectSeq(SubSeq(toks, i + 1, RunEnd(toks, i, SameLineToks \ {TokCA})),
                       IsUpperLetterTok)

\* alphabetical and free of duplicates
StrictlySorted(letters) ==
    \A i \in 1..(Len(letters) - 1) :
        \E a, b \in 1..Len(UpperChars) :
            a < b /\ UpperChars[a] = letters[i] /\ UpperChars[b] = letters[i + 1]

\* C5: once the normalizer has rewritten the question, every letter on its
\* "Correct Answers" line is the letter of one of the question's options.
C5_WrittenLettersAreOptions ==
    Fixed => SeqToSet(LettersOnAnswerLine(section.expl)) \subseteq OptionLettersOf(section)

\* C6: the letters the normalizer read from the explicit declaration are
\* exactly the letters on the declaration's line that are option letters; the
\* text after the line contributes none.
C6_ReadsOnlyTheAnswerLine ==
    (runs = 1 /\ Len(questionDetails) = 1) =>
        SeqToSet(questionDetails[1].originalCorrectLetters)
           = SeqToSet(LettersOnAnswerLine(content.expl)) \cap OptionLettersOf(content)

\* the heuristics found a letter that the explicit line does not list
Disagrees(fix) ==
    \E l \in SeqToSet(fix.explicitlyMentionedCorrect) :
        l \notin SeqToSet(fix.originalCorrectLetters)

C8_NegationVetoes ==
    (runs = 1 /\ Len(questionDetails) = 1) =>
        \A i \in 1..Len(content.options) :
            LET text == ExplanationTextOnly(content.expl)
                option == content.options[i]
            IN  (/\ MentionedWith(text, option, CORRECT_PHRASES)
                 /\ MentionedWith(text, option, NEGATION_PHRASES))
                   => option.letter
                         \notin SeqToSet(questionDetails[1].explicitlyMentionedCorrect)

\* C9: every "Correct Answers" line the normalizer has written lists its
\* letters in alphabetical order without duplicates.
C9_WrittenLineSortedUnique ==
    Fixed => StrictlySorted(LettersOnAnswerLine(section.expl))

\* the question carries one answer line, first in its explanation, sorted and
\* duplicate-free, and the heuristics find no letter outside it
Normalized(sec) ==
    /\ Len(sec.expl) >= 2
    /\ sec.expl[1] = TokNL
    /\ sec.expl[2] = TokCA
    /\ ~HasDuplicateAnswerLines(sec.expl)
    /\ StrictlySorted(LettersOnAnswerLine(sec.expl))
    /\ SeqToSet(ExplicitlyMentionedCorrect(sec))
          \subseteq SeqToSet(LettersOnAnswerLine(sec.expl))

\* C10: a second run over a question the first run normalized leaves its
\* text identical.
C10_SecondRunChangesNothing ==
    (runs = 2 /\ Len(questionDetails) >= 1 /\ Normalized(content)) =>
        section = content

\* C11: after a run over a question whose explanation held two or more
\* "Correct Answers" declarations, the explanation holds exactly one, it
\* opens the explanation (after the line break that follows </summary>), and
\* its letters are the letters the run reconciled: those it read from the
\* declaration together with those its analysis found.
C11_DuplicatesCollapseToFirstLine ==
    (runs >= 1 /\ HasDuplicateAnswerLines(content.expl)) =>
        /\ Fixed
        /\ LastFix.hasDuplicateAnswerLines
        /\ Cardinality({i \in 1..Len(section.expl) : section.expl[i] = TokCA}) = 1
        /\ section.expl[1] = TokNL
        /\ section.expl[2] = TokCA
        /\ LettersOnAnswerLine(section.expl) = LastFix.newCorrectLetters
        /\ SeqToSet(LettersOnAnswerLine(section.expl))
              = SeqToSet(LastFix.originalCorrectLetters)
                  \cup SeqToSet(LastFix.explicitlyMentionedCorrect)

\* C11 witness: two declarations, "A" and "B" on separate lines; one run
\* left the single line "A" first
C11_Witness ==
    /\ runs = 1
    /\ content.expl = <<TokCA, "A", TokNL, TokCA, "B">>
    /\ section.expl = <<TokNL, TokCA, "A", TokNL, TokNL>>

(***************************************************************************)
(* Claims about fix_all_quizzes.js and the test suite of                   *)
(* fix_answer_discrepancies.js, checked under SpecFixAll.                  *)
(***************************************************************************)
IsTrueFalse(sec) == Includes(ToLowerCase(sec.qtype), StrTrueFalse)

IsMultipleChoice(sec) == Includes(ToLowerCase(sec.qtype), StrMultipleChoice)

\* a run of fix_all_quizzes.js has just worked on a section whose details
\* block was whole and that no known fix names
FixAllRan ==
    /\ runs >= 1
    /\ content # NoSection
    /\ content.closed
    /\ content.known = ""

RepairWroteLine ==
    /\ runs >= 1
    /\ content # NoSection
    /\ results.detailsAdded + results.placeholdersFixed + results.answerFormatsFixed > 0
    /\ section.expl # content.expl

\* the letters of the line that run wrote: the line of the default details
\* block, of the placeholder branch or of the answer format branch
RepairedLetters ==
    IF results.detailsAdded = 1 THEN LettersOnAnswerLine(DefaultDetails)
    ELSE IF results.placeholdersFixed = 1 THEN PlaceholderLetters(content)
    ELSE FormatLetters(content)

\* C13: the line fixFile inserts or replaces in a True/False or Multiple
\* Choice question names exactly one letter.
C13_RepairedChoiceLineHasOneLetter ==
    (RepairWroteLine /\ (IsTrueFalse(content) \/ IsMultipleChoice(content)))
        => Len(RepairedLetters) = 1

\* the explanation the run read holds no mark of marks in front of the text
\* of an option
NoOptionMarked(marks) ==
    ~\E i \in 1..(Len(content.expl) - 1), k \in 1..Len(content.options) :
        content.expl[i] \in marks /\ content.expl[i + 1] = content.options[k].text

\* the section holds a "Correct Answers" line that names just these letters
HasAnswerLine(toks, letters) ==
    \E i \in 1..Len(toks) :
        /\ toks[i] = TokCA
        /\ LineStart(toks, i)
        /\ i + Len(JoinLetters(letters)) <= Len(toks)
        /\ SubSeq(toks, i + 1, i + Len(JoinLetters(letters))) = JoinLetters(letters)
        /\ (i + Len(JoinLetters(letters)) = Len(toks)
              \/ toks[i + Len(JoinLetters(letters)) + 1] = TokNL)

\* the run went through the placeholder branch and changed the explanation
PlaceholderFallback ==
    /\ runs >= 1
    /\ content # NoSection
    /\ content.closed
    /\ results.placeholdersFixed = 1
    /\ section.expl # content.expl
    /\ NoOptionMarked({TokCheck})

\* the run went through the answer format branch
FormatFallback ==
    /\ runs >= 1
    /\ content # NoSection
    /\ content.closed
    /\ results.answerFormatsFixed = 1
    /\ NoOptionMarked({TokCheck, TokCorrectColon})

\* the letter of the option whose text is "false"
FalseOptionLetter(sec) ==
    (CHOOSE o \in SeqToSet(sec.options) : o.text = "false").letter

DerivedTwin(sec, letter) ==
    [sec EXCEPT !.expl =
        <<TokNL, TokCheck,
          (CHOOSE o \in SeqToSet(sec.options) : o.letter = letter).text>>]

\* C15: a letter written by the type default can be told from a letter
\* derived from the explanation: the question that differs only in having
\* its option marked does not get the same answer line and the same counters.
C15_DefaultDistinguishable ==
    (FormatFallback /\ Len(RepairedLetters) = 1) =>
        \A twin \in {FixFileSection(DerivedTwin(content, RepairedLetters[1]))} :
            ~(/\ twin.results = results
              /\ LettersOnAnswerLine(twin.section.expl)
                    = LettersOnAnswerLine(section.expl))

\* the letters of the options of a section whose text stands right behind
\* one of the marks in its explanation
MarkedOptions(sec, marks) ==
    {sec.options[k].letter : k \in
        {k \in 1..Len(sec.options) :
            \E i \in 1..(Len(sec.expl) - 1) :
                sec.expl[i] \in marks /\ sec.expl[i + 1] = sec.options[k].text}}

\* a run of fixFile went through the answer format branch and found an
\* option to name
FormatBranchFound ==
    /\ runs >= 1
    /\ content # NoSection
    /\ content.closed
    /\ results.answerFormatsFixed = 1
    /\ MarkedOptions(content, {TokCheck, TokCorrectColon}) # {}

\* C16 as the specification states it: in a question without an answer
\* declaration the options named are those whose text follows a check glyph,
\* all of them and no other.
C16_OnlyCheckMarkedOptions ==
    FormatBranchFound =>
        SeqToSet(LettersOnAnswerLine(section.expl))
            = MarkedOptions(content, {TokCheck})

\* C16: in a question without a standard answer line, fixFile names the
\* options whose text follows a check glyph or the word "correct:", all of
\* them and no other; the test parser names those whose text follows a check
\* glyph, all of them and no other.
C16_MarkedOptionsAreNamed ==
    /\ FormatBranchFound =>
          SeqToSet(LettersOnAnswerLine(section.expl))
              = MarkedOptions(content, {TokCheck, TokCorrectColon})
    /\ (section.closed /\ ~MdAnswerLine(section.expl)) =>
          SeqToSet(ParseQuestionLetters(section)) = MarkedOptions(section, {TokCheck})

C16_Witness ==
    /\ runs = 1
    /\ IsMultipleChoice(content)
    /\ content.expl = <<TokNL, TokCheck, "rome">>
    /\ section.expl = <<TokNL, TokCA, "B", TokNL, TokCheck, "rome", TokNL>>

(***************************************************************************)
(* Further claims about the renderer, checked under Spec.                  *)
(***************************************************************************)
\* generateQuizHtml has run on a question none of whose boxes is marked
BuiltUnresolved ==
    /\ stage # "source"
    /\ markdown.header # <<>>
    /\ \A i \in 1..Len(markdown.options) : ToLowerChar(markdown.options[i].mark) # "x"

C18_DeclarationStripped ==
    (stage # "source" /\ page.block) =>
        \A i \in 1..Len(page.explanation) :
            page.explanation[i] # "<strong>Correct Answers:</strong>"

(***************************************************************************)
(* Claims about the test scripts, checked under SpecDoc.                   *)
(***************************************************************************)
\* C19: parsing a file without any question section fails with an error
\* instead of returning an empty list of questions.
C19_NoQuestionIsAnError ==
    (fileInfo.returned /\ Len(document.questions) = 0) => fileInfo.threw

\* C20: a section without option lines does not stop the file: the parser
\* returns one question per section, in order, each with the options of its
\* section (none for the section without option lines), and the markdown test
\* flags exactly the questions without options with an option-format issue
\* while it still tests every other question.
C20_MalformedQuestionIsIsolated ==
    /\ fileInfo.returned =>
          /\ ~fileInfo.threw
          /\ Len(fileInfo.questions) = Len(document.questions)
          /\ \A k \in 1..Len(document.questions) :
                /\ fileInfo.questions[k].number = k
                /\ fileInfo.questions[k].options = document.questions[k].options
                /\ document.questions[k].closed =>
                      fileInfo.questions[k].correctLetters = <<"A">>
    /\ issues.tested =>
          \A k \in 1..Len(document.questions) :
              /\ <<k, "option-format">> \in issues.found
                    <=> document.questions[k].options = <<>>
              /\ <<k, "missing-details">> \in issues.found
                    <=> ~document.questions[k].closed

C20_Witness ==
    /\ Len(document.questions) = 3
    /\ document.questions[1].options # <<>>
    /\ document.questions[2].options = <<>>
    /\ document.questions[3].options # <<>>
    /\ fileInfo.returned
    /\ Len(fileInfo.questions) = 3
    /\ fileInfo.questions[2].options = <<>>
    /\ issues.tested
    /\ <<2, "option-format">> \in issues.found
    /\ <<3, "option-format">> \notin issues.found

(***************************************************************************)
(* Further claims about the grader, checked under Spec.                    *)
(***************************************************************************)
\* C23: every check click grades the selection of that click, whatever was
\* clicked before, and flips the explanation between hidden and shown.
C23_EachClickGradesAndFlips ==
    [][ClickCheck =>
          /\ feedback' = CheckAnswer(dom, checked).className
          /\ display = "block" => display' = "none"
          /\ display = "none" => display' = "block"]_vars

\* C27: on a loaded question with at least one control the check button
\* reads "Hide Explanation" exactly when the explanation is displayed and
\* "Check Answer" exactly when it is hidden.
C27_ButtonTextFollowsExplanation ==
    (stage = "loaded" /\ dom.block /\ Len(dom.inputs) >= 1) =>
        /\ display \in {"none", "block"}
        /\ (btnText = "Hide Explanation") <=> (display = "block")
        /\ (btnText = "Check Answer") <=> (display = "none")

\* the explanation was shown, hidden and shown again, with selections between
C27_Witness ==
    /\ stage = "loaded"
    /\ Len(dom.inputs) >= 2
    /\ checked # {}
    /\ result.kind = "returned"
    /\ display = "block"
    /\ btnText = "Hide Explanation"
    /\ feedback = "feedback incorrect"

\* C28: no check click on an emitted question block raises an error.
C28_CheckClickNeverThrows ==
    (stage = "loaded" /\ dom.block) => result.kind # "threw"

(***************************************************************************)
(* A further claim about fix_all_quizzes.js, checked under SpecFixAll.     *)
(***************************************************************************)
\* the tokens of an explanation that stand behind the letter list of its
\* first answer line, line breaks left aside
ProseAfterLetters(toks) ==
    LET i == AnswersMatch(toks)
        e == RunEnd(toks, i, SeqToSet(UpperChars) \cup {TokComma})
        NotBreak(t) == t # TokNL
    IN  SelectSeq(SubSeq(toks, e + 1, Len(toks)), NotBreak)

\* a run of fix_all_quizzes.js rewrote the answer line by a known fix or by
\* the Multiple Choice cut, and did nothing else to the section
AnswerLineRewritten ==
    /\ runs >= 1
    /\ content # NoSection
    /\ results.specificFixes + results.multipleChoiceFixed = 1
    /\ results.otherFixes = 0

\* C29: when the fixer rewrites the answer line, the options, the text in
\* front of the line and the prose behind its letter list stay as they were.
C29_OnlyTheLetterListChanges ==
    AnswerLineRewritten =>
        /\ section.qtype = content.qtype
        /\ section.options = content.options
        /\ SubSeq(section.expl, 1, AnswersMatch(content.expl))
              = SubSeq(content.expl, 1, AnswersMatch(content.expl))
        /\ ProseAfterLetters(section.expl) = ProseAfterLetters(content.expl)

(***************************************************************************)
(* Claims about checkQuizFile, checked under SpecCheck.                    *)
(***************************************************************************)
\* the numbers of the headers of the file, in document order
HeaderNumbers == [i \in 1..Len(document.questions) |-> document.questions[i].number]

\* the headers carry exactly the numbers 1..n, each once
NumberedOneToN ==
    /\ \A i \in 1..Len(HeaderNumbers) : HeaderNumbers[i] \in 1..Len(HeaderNumbers)
    /\ \A i, j \in 1..Len(HeaderNumbers) :
          HeaderNumbers[i] = HeaderNumbers[j] => i = j

\* C22: checkQuizFile reports a missing or a duplicate number exactly for the
\* files whose header numbers are not the numbers 1..n each used once; it
\* reports a duplicate exactly when two headers carry the same number.
C22_NumberingIssueIffNotOneToN ==
    issues.tested =>
        /\ ("Missing Question Numbers" \in issues.found
               \/ "Duplicate Question Numbers" \in issues.found)
              <=> ~NumberedOneToN
        /\ "Duplicate Question Numbers" \in issues.found
              <=> \E i, j \in 1..Len(HeaderNumbers) :
                     i # j /\ HeaderNumbers[i] = HeaderNumbers[j]

\* the file numbers its questions 1, 3, 4: the number 2 is missing
C22_Witness ==
    /\ issues.tested
    /\ HeaderNumbers = <<1, 3, 4>>
    /\ "Missing Question Numbers" \in issues.found
    /\ "Duplicate Question Numbers" \notin issues.found

\* C24: checkQuizFile records a "Question Order" issue for every file whose
\* headers do not stand in strictly increasing number order.
C24_OrderIssueWhenNotIncreasing ==
    (/\ issues.tested
     /\ \E i \in 1..(Len(HeaderNumbers) - 1) : HeaderNumbers[i] >= HeaderNumbers[i + 1])
        => "Question Order" \in issues.found

C26_PairedByNumber ==
    combined.written =>
        \A i \in 1..Len(combined.pairs) :
            LET named == \E k \in 1..Len(answerFile) :
                            /\ NamesQuestion(answerFile[k], combined.pairs[i].number)
                            /\ ~answerFile[k].blank
            IN  /\ named => combined.pairs[i].answer = combined.pairs[i].number
                /\ combined.pairs[i].fallback => ~named

(***************************************************************************)
(* Claims about the converter page, checked under SpecConvert.             *)
(***************************************************************************)
\* C30: once every read has completed, the output field holds the
\* conversion of the file of the last submit.
C30_OutputIsLastSubmit ==
    (reads = {} /\ Len(submitted) >= 1) =>
        output = ConvertMarkdownToInteractive(submitted[Len(submitted)])

(***************************************************************************)
(* Claims about the build of a whole file, checked under SpecBuildFile.    *)
(***************************************************************************)
\* the number of question headers of the file
HeaderCount == HeadersBefore(document.pieces, Len(document.pieces) + 1)

\* C25: the built page holds exactly one block for each question header, and
\* the block of question N is the one the tests find under index N - 1.
C25_OneBlockPerHeaderAtIndex ==
    quizHtml.built =>
        /\ Len(quizHtml.blocks) = HeaderCount
        /\ \A N \in 1..HeaderCount :
              /\ HtmlQuestionMatch(quizHtml.blocks, N) # <<>>
              /\ HtmlQuestionMatch(quizHtml.blocks, N)[1].question = N

====
